---------------------------- MODULE Spec2Model ----------------------------
(* Model of Código/dashboard.py: the Streamlit script whose main() is run  *)
(* from top to bottom on every user interaction.  The session state        *)
(* (st.session_state) survives between runs; everything else is local to   *)
(* one run.  A run is the sequence step1 (load, lines 102-114), step2      *)
(* (clean, 117-144), step3 (visualize, 147-189), step4 (map, 192-210),     *)
(* step5 (export, 213-228); an exception that nothing catches ends it.     *)
EXTENDS Integers, Sequences, FiniteSets

VARIABLES
    keys,            \* the keys present in st.session_state
    df,              \* st.session_state['df'] (EmptyTable while the key is absent)
    df_clean,        \* st.session_state['df_clean'] (EmptyTable while absent)
    pc,              \* position of the current run of main(); "idle" between runs
    button,          \* what st.button returned in this run (line 102)
    called,          \* load_data_from_api was called in this run (line 104)
    outcome,         \* the exception the fetch met in this run, or "ok"
    fetched,         \* the table load_data_from_api returned in this run
    reported,        \* the st.error message of this run ("none" when there is none)
    raised,          \* the exception that ended this run ("none" when there is none)
    raised_at,       \* the source line that raised it (0 when there is none)
    cleaned,         \* lines 127-135 ran in this run
    aggregated,      \* line 164 produced deptos_avg in this run
    selected_metric, \* the metric chosen in the selectbox of line 154
    deptos_avg       \* the aggregate of line 164

vars == <<keys, df, df_clean, pc, button, called, outcome, fetched, reported,
          raised, raised_at, cleaned, aggregated, selected_metric, deptos_avg>>

-----------------------------------------------------------------------------
(* Bounds of the model.                                                    *)

\* At most this many rows in a fetched table of the small family.
MaxRows == 2

\* At most this many departments in a fetched table of the wide family.
MaxDepts == 11

\* head(10) of line 164.
TopN == 10

-----------------------------------------------------------------------------
(* Cell values.  A cell is a record [t, v]:                                 *)
(*   "nan"  a missing value (None, NaN, NaT);                               *)
(*   "str"  the decimal string of the integer v ("2019", "12", "-74");      *)
(*   "name" a string that is no number; v orders the names as the strings   *)
(*          are ordered (Name(0) stands for "bad");                         *)
(*   "num"  the number v;                                                   *)
(*   "date" the Timestamp of the first instant of year v.                   *)

NaN == [t |-> "nan", v |-> 0]

Str(n) == [t |-> "str", v |-> n]

Name(k) == [t |-> "name", v |-> k]

Num(n) == [t |-> "num", v |-> n]

Date(y) == [t |-> "date", v |-> y]

\* A table: the column names in order and the rows, each a function from
\* the column names to cells.
EmptyTable == [cols |-> <<>>, rows |-> <<>>]

Range(s) == {s[i] : i \in DOMAIN s}

\* DataFrame.empty: True when any axis has length 0.
IsEmpty(tbl) == Len(tbl.cols) = 0 \/ Len(tbl.rows) = 0

-----------------------------------------------------------------------------
(* pd.to_datetime(df['a_o'], format='%Y')  (line 124).                      *)

\* The digits str() gives a cell, when it has any: the text a "%Y" match reads.
YearText(val) == val.t \in {"str", "num"}

\* "%Y" matches exactly four digits.
IsFourDigitYear(val) == YearText(val) /\ val.v >= 1000 /\ val.v <= 9999

\* A cell to_datetime raises ValueError on: errors='raise' is the default.
YearMalformed(val) == val.t = "name" \/ (YearText(val) /\ ~IsFourDigitYear(val))

\* The Timestamp of a cell that parses; a missing value gives NaT.
ParseYear(val) ==
    IF val.t = "nan" THEN NaN
    ELSE IF val.t = "date" THEN val
    ELSE Date(val.v)

\* Line 123-124 raises on this table.
YearRaises(tbl) ==
    /\ "a_o" \in Range(tbl.cols)
    /\ \E i \in DOMAIN tbl.rows : YearMalformed(tbl.rows[i]["a_o"])

\* Lines 123-124 when nothing raises: the column 'Año' is set (appended when
\* the table has none yet) to the parsed years.
DeriveYear(tbl) ==
    IF "a_o" \notin Range(tbl.cols) THEN tbl
    ELSE [cols |-> IF "Año" \in Range(tbl.cols) THEN tbl.cols
                   ELSE Append(tbl.cols, "Año"),
          rows |-> [i \in DOMAIN tbl.rows |->
                      [c \in Range(tbl.cols) \cup {"Año"} |->
                          IF c = "Año" THEN ParseYear(tbl.rows[i]["a_o"])
                          ELSE tbl.rows[i][c]]]]

-----------------------------------------------------------------------------
(* df.dropna() and pd.to_numeric(..., errors='coerce')  (lines 127-130).    *)

\* The columns the loop of line 128 leaves alone.
Categorical == {"departamento", "municipio"}

\* Days from 1970-01-01 to the first day of year y.
LeapsBefore(y) == ((y - 1) \div 4) - ((y - 1) \div 100) + ((y - 1) \div 400)

EpochDays(y) == 365 * (y - 1970) + LeapsBefore(y) - LeapsBefore(1970)

\* pd.to_numeric of one cell under errors='coerce'.  A datetime64 column is
\* viewed as int64 nanoseconds since the epoch; the model counts that number
\* in days (one day is 86400 * 10^9 ns, beyond the integers TLC computes with).
to_numeric_ignore(val) ==
    IF val.t = "str" THEN Num(val.v)
    ELSE IF val.t = "date" THEN Num(EpochDays(val.v))
    ELSE val

to_numeric(val) ==
    IF val.t = "str" THEN Num(val.v)
    ELSE IF val.t = "name" THEN NaN
    ELSE IF val.t = "date" THEN Num(EpochDays(val.v))
    ELSE val

\* A row with a missing value in some column.
HasMissing(row) == \E c \in DOMAIN row : row[c].t = "nan"

\* The rows without a missing value, in order.
RECURSIVE DropNaRows(_)
DropNaRows(rows) ==
    IF rows = <<>> THEN <<>>
    ELSE IF HasMissing(Head(rows)) THEN DropNaRows(Tail(rows))
    ELSE <<Head(rows)>> \o DropNaRows(Tail(rows))

\* df.dropna()  (line 127).
DropNa(tbl) == [cols |-> tbl.cols, rows |-> DropNaRows(tbl.rows)]

\* Lines 128-130: every column but the categorical ones through to_numeric.
Coerce(tbl) ==
    [cols |-> tbl.cols,
     rows |-> [i \in DOMAIN tbl.rows |->
                 [c \in DOMAIN tbl.rows[i] |->
                     IF c \in Categorical THEN tbl.rows[i][c]
                     ELSE to_numeric(tbl.rows[i][c])]]]

\* Lines 123-130 on a table the year derivation does not raise on.
CleanTable(tbl) == Coerce(DropNa(DeriveYear(tbl)))

-----------------------------------------------------------------------------
(* load_data_from_api  (lines 54-78).                                       *)

\* What the body of the try can raise: requests.get (ConnectionError,
\* Timeout), raise_for_status (HTTPError), response.json() (JSONDecodeError)
\* and pd.DataFrame(data) on a payload that is no table (ValueError).
FetchFailures ==
    {"ConnectionError", "Timeout", "HTTPError", "JSONDecodeError", "ValueError"}

\* The subclasses of requests.exceptions.RequestException (line 74).
IsRequestException(e) ==
    e \in {"ConnectionError", "Timeout", "HTTPError", "JSONDecodeError"}

\* The subclasses of Exception (line 76).
IsException(e) == e \in FetchFailures

\* The function without the handler of lines 76-77.
load_data_without_generic_handler(o) ==
    IF o.kind = "ok"
    THEN [table |-> o.table, error |-> "none", escaped |-> "none"]
    ELSE IF IsRequestException(o.kind)
    THEN [table |-> EmptyTable, error |-> "Error de conexión", escaped |-> "none"]
    ELSE [table |-> EmptyTable, error |-> "none", escaped |-> o.kind]

\* o is what the request met: [kind |-> "ok", table |-> the decoded payload]
\* or [kind |-> an exception].  The result is the table returned, the
\* message given to st.error and the exception that leaves the function.
load_data_from_api(o) ==
    IF o.kind = "ok"
    THEN [table |-> o.table, error |-> "none", escaped |-> "none"]
    ELSE IF IsRequestException(o.kind)
    THEN [table |-> EmptyTable, error |-> "Error de conexión", escaped |-> "none"]
    ELSE IF IsException(o.kind)
    THEN [table |-> EmptyTable, error |-> "Error inesperado", escaped |-> "none"]
    ELSE [table |-> EmptyTable, error |-> "none", escaped |-> o.kind]

-----------------------------------------------------------------------------
(* df_clean.groupby('departamento')[m].mean()                               *)
(*         .sort_values(ascending=False).head(10)  (line 164).              *)
(* An entry of the aggregate is [key, sum, cnt]: its mean is sum / cnt, and *)
(* NaN when cnt = 0 (the group has no value that is not missing).           *)

\* The group keys: groupby leaves out the rows whose key is missing.
GroupKeys(tbl) ==
    {tbl.rows[i]["departamento"] : i \in DOMAIN tbl.rows} \ {NaN}

\* The keys in the order groupby gives the groups (sort=True).
RECURSIVE SortKeys(_)
SortKeys(S) ==
    IF S = {} THEN <<>>
    ELSE LET m == CHOOSE k \in S : \A j \in S : k.v <= j.v
         IN  <<m>> \o SortKeys(S \ {m})

\* The sum and the count of the values of the group that are not missing:
\* mean() skips NaN.
RECURSIVE GroupSum(_, _, _)
GroupSum(rows, key, metric) ==
    IF rows = <<>> THEN 0
    ELSE LET r == Head(rows)
         IN  (IF r["departamento"] = key /\ r[metric].t = "num"
              THEN r[metric].v ELSE 0) + GroupSum(Tail(rows), key, metric)

RECURSIVE GroupCount(_, _, _)
GroupCount(rows, key, metric) ==
    IF rows = <<>> THEN 0
    ELSE LET r == Head(rows)
         IN  (IF r["departamento"] = key /\ r[metric].t = "num"
              THEN 1 ELSE 0) + GroupCount(Tail(rows), key, metric)

GroupMeans(tbl, metric) ==
    LET ks == SortKeys(GroupKeys(tbl))
    IN  [i \in DOMAIN ks |->
            [key |-> ks[i],
             sum |-> GroupSum(tbl.rows, ks[i], metric),
             cnt |-> GroupCount(tbl.rows, ks[i], metric)]]

\* a.sum / a.cnt > b.sum / b.cnt, for entries with a mean.
MeanGT(a, b) == a.sum * b.cnt > b.sum * a.cnt

RECURSIVE WithMean(_)
WithMean(es) ==
    IF es = <<>> THEN <<>>
    ELSE IF Head(es).cnt > 0 THEN <<Head(es)>> \o WithMean(Tail(es))
    ELSE WithMean(Tail(es))

RECURSIVE WithoutMean(_)
WithoutMean(es) ==
    IF es = <<>> THEN <<>>
    ELSE IF Head(es).cnt = 0 THEN <<Head(es)>> \o WithoutMean(Tail(es))
    ELSE WithoutMean(Tail(es))

\* e put into a sequence sorted by mean, descending, after the entries whose
\* mean is not less than its own.
RECURSIVE InsertDesc(_, _)
InsertDesc(sorted, e) ==
    IF sorted = <<>> THEN <<e>>
    ELSE IF MeanGT(e, Head(sorted)) THEN <<e>> \o sorted
    ELSE <<Head(sorted)>> \o InsertDesc(Tail(sorted), e)

RECURSIVE SortDesc(_, _)
SortDesc(done, todo) ==
    IF todo = <<>> THEN done
    ELSE SortDesc(InsertDesc(done, Head(todo)), Tail(todo))

\* sort_values(ascending=False): the entries with a mean by mean, descending,
\* equal means in the order they had; then the NaN entries (na_position='last').
SortValuesDesc(es) == SortDesc(<<>>, WithMean(es)) \o WithoutMean(es)

\* head(n).
HeadN(es, n) == SubSeq(es, 1, IF Len(es) < n THEN Len(es) ELSE n)

\* Line 164 without head(10).
TopByMeanNoHead(tbl, metric) == SortValuesDesc(GroupMeans(tbl, metric))

\* Line 164.
TopByMean(tbl, metric) == HeadN(SortValuesDesc(GroupMeans(tbl, metric)), TopN)

-----------------------------------------------------------------------------
(* The payloads the API answers with.                                       *)

FullCols == <<"a_o", "departamento", "tasa", "lat", "lon">>

\* A record of the API: year, department and rate as given, the coordinates
\* and the municipality fixed.
MkRow(cols, year, dept, tasa) ==
    [c \in Range(cols) |->
        CASE c = "a_o" -> year
          [] c = "departamento" -> dept
          [] c = "municipio" -> Name(100)
          [] c = "tasa" -> tasa
          [] c = "lat" -> Str(4)
          [] OTHER -> Str(-74)]

\* "2019", "19" (no four-digit year) and a record without the field.
YearChoices == <<Str(2019), Str(19), NaN>>

\* Department and rate: two departments, two rates, and the rate "bad".
DeptTasaChoices ==
    << <<Name(1), Str(12)>>, <<Name(1), Str(7)>>,
       <<Name(2), Str(7)>>,  <<Name(1), Name(0)>> >>

RowKinds == 1 .. (Len(YearChoices) * Len(DeptTasaChoices))

RowOfKind(k) ==
    LET y  == YearChoices[((k - 1) \div Len(DeptTasaChoices)) + 1]
        dt == DeptTasaChoices[((k - 1) % Len(DeptTasaChoices)) + 1]
    IN  MkRow(FullCols, y, dt[1], dt[2])

\* The row kinds of the small tables, in non-decreasing order of kind.
KindSeqs ==
    {s \in UNION {[1 .. n -> RowKinds] : n \in 1 .. MaxRows} :
        \A i, j \in DOMAIN s : i < j => s[i] <= s[j]}

SmallTables ==
    {[cols |-> FullCols, rows |-> [i \in DOMAIN s |-> RowOfKind(s[i])]] :
        s \in KindSeqs}

\* Payloads of other shapes: no year field; no department field; no
\* coordinates (and a municipality); [{}], a row without any column.
NoYearCols == <<"departamento", "tasa", "lat", "lon">>

NoDeptCols == <<"a_o", "tasa", "lat", "lon">>

NoCoordCols == <<"a_o", "departamento", "municipio", "tasa">>

ShapeTables ==
    {[cols |-> c, rows |-> <<MkRow(c, Str(2019), Name(1), Str(12))>>] :
        c \in {NoYearCols, NoDeptCols, NoCoordCols, <<>>}}

\* Tables of nd departments, one row each, the rates following a pattern.
WidePatterns == {"asc", "desc", "ties", "mixed"}

WideRate(p, nd, i) ==
    CASE p = "asc" -> Str(i)
      [] p = "desc" -> Str(nd - i)
      [] p = "ties" -> Str(5)
      [] OTHER -> IF i = 2 THEN Name(0) ELSE Str((i * 3) % 7)

WideTable(p, nd) ==
    [cols |-> FullCols,
     rows |-> [i \in 1 .. nd |->
                 MkRow(FullCols, Str(2019), Name(i), WideRate(p, nd, i))]]

WideTables == {WideTable(p, nd) : p \in WidePatterns, nd \in TopN .. MaxDepts}

\* [] (the empty array) decodes to the table without rows and columns.
RawTables == {EmptyTable} \cup SmallTables \cup ShapeTables \cup WideTables

FetchOutcomes ==
    [kind : FetchFailures, table : {EmptyTable}]
        \cup [kind : {"ok"}, table : RawTables]

-----------------------------------------------------------------------------
(* main()  (lines 97-228), one run per user interaction.                    *)

Init ==
    /\ keys = {}
    /\ df = EmptyTable
    /\ df_clean = EmptyTable
    /\ pc = "idle"
    /\ button = FALSE
    /\ called = FALSE
    /\ outcome = "none"
    /\ fetched = EmptyTable
    /\ reported = "none"
    /\ raised = "none"
    /\ raised_at = 0
    /\ cleaned = FALSE
    /\ aggregated = FALSE
    /\ selected_metric = "none"
    /\ deptos_avg = <<>>

\* A run starts: its locals are fresh, the session state is what it was.
StartRun(pressed) ==
    /\ pc = "idle"
    /\ pc' = "step1"
    /\ button' = pressed
    /\ called' = FALSE
    /\ outcome' = "none"
    /\ fetched' = EmptyTable
    /\ reported' = "none"
    /\ raised' = "none"
    /\ raised_at' = 0
    /\ cleaned' = FALSE
    /\ aggregated' = FALSE
    /\ selected_metric' = "none"
    /\ deptos_avg' = <<>>
    /\ UNCHANGED <<keys, df, df_clean>>

\* The user presses the button of line 102.
ClickLoad == StartRun(TRUE)

\* The user changes a selectbox: the script runs again, the button unpressed.
Rerun == StartRun(FALSE)

\* An exception nothing catches ends the run.
Raise(exc, line) ==
    /\ raised' = exc
    /\ raised_at' = line
    /\ pc' = "idle"

\* Lines 106-114 with the session state cleared when the table is empty.
StoreFetchedOrClear(tbl, k, d) ==
    IF ~IsEmpty(tbl)
    THEN [keys |-> k \cup {"df"}, df |-> tbl]
    ELSE [keys |-> k \ {"df"}, df |-> EmptyTable]

\* Lines 106-114 without the test of line 106.
StoreFetchedAlways(tbl, k, d) == [keys |-> k \cup {"df"}, df |-> tbl]

\* Lines 106-114: the fetched table is stored when it is not empty; k and d
\* are the session's keys and its 'df' before.
StoreFetched(tbl, k, d) ==
    IF ~IsEmpty(tbl)
    THEN [keys |-> k \cup {"df"}, df |-> tbl]
    ELSE [keys |-> k, df |-> d]

\* Lines 102-114.
Step1Load ==
    /\ pc = "step1"
    /\ IF button
       THEN \E o \in FetchOutcomes :
              LET r == load_data_from_api(o)
                  s == StoreFetched(r.table, keys, df)
              IN  /\ called' = TRUE
                  /\ outcome' = o.kind
                  /\ fetched' = r.table
                  /\ reported' = r.error
                  /\ IF r.escaped # "none"
                     THEN /\ Raise(r.escaped, 104)
                          /\ UNCHANGED <<keys, df>>
                     ELSE /\ keys' = s.keys
                          /\ df' = s.df
                          /\ pc' = "step2"
                          /\ UNCHANGED <<raised, raised_at>>
       ELSE /\ pc' = "step2"
            /\ UNCHANGED <<keys, df, called, outcome, fetched, reported,
                           raised, raised_at>>
    /\ UNCHANGED <<df_clean, button, cleaned, aggregated, selected_metric,
                   deptos_avg>>

\* The test of line 117 made to clean a raw table once only.
Step2GuardOnce(k) == "df" \in k /\ "df_clean" \notin k

\* The test of line 117.
Step2Guard(k) == "df" \in k

\* Lines 117-144.  Line 124 writes the column 'Año' into the table the
\* session holds; line 135 stores the cleaned table; line 142 reads the
\* column 'departamento'.
Step2Clean ==
    /\ pc = "step2"
    /\ IF ~Step2Guard(keys)
       THEN /\ pc' = "step3"
            /\ UNCHANGED <<keys, df, df_clean, raised, raised_at, cleaned>>
       ELSE IF YearRaises(df)
       THEN /\ Raise("ValueError", 124)
            /\ UNCHANGED <<keys, df, df_clean, cleaned>>
       ELSE /\ df' = DeriveYear(df)
            /\ df_clean' = CleanTable(df)
            /\ keys' = keys \cup {"df_clean"}
            /\ cleaned' = TRUE
            /\ IF "departamento" \notin Range(df.cols)
               THEN Raise("KeyError", 142)
               ELSE /\ pc' = "step3"
                    /\ UNCHANGED <<raised, raised_at>>
    /\ UNCHANGED <<button, called, outcome, fetched, reported, aggregated,
                   selected_metric, deptos_avg>>

\* What the selectbox of line 154 offers: the columns of the cleaned table
\* (None when there are none).
Metrics(tbl) == IF tbl.cols = <<>> THEN {"None"} ELSE Range(tbl.cols)

\* Lines 147-189.  px.line raises when the table has no column 'Año'
\* (line 157); the mean of a column of strings raises (line 164).
Step3Visualize ==
    /\ pc = "step3"
    /\ IF "df_clean" \notin keys
       THEN /\ pc' = "step4"
            /\ UNCHANGED <<raised, raised_at, aggregated, selected_metric,
                           deptos_avg>>
       ELSE \E m \in Metrics(df_clean) :
              /\ selected_metric' = m
              /\ IF "Año" \notin Range(df_clean.cols)
                 THEN /\ Raise("ValueError", 157)
                      /\ UNCHANGED <<aggregated, deptos_avg>>
                 ELSE IF "departamento" \notin Range(df_clean.cols)
                 THEN /\ Raise("KeyError", 164)
                      /\ UNCHANGED <<aggregated, deptos_avg>>
                 ELSE IF m \in Categorical
                 THEN /\ Raise("TypeError", 164)
                      /\ UNCHANGED <<aggregated, deptos_avg>>
                 ELSE /\ deptos_avg' = TopByMean(df_clean, m)
                      /\ aggregated' = TRUE
                      /\ pc' = "step4"
                      /\ UNCHANGED <<raised, raised_at>>
    /\ UNCHANGED <<keys, df, df_clean, button, called, outcome, fetched,
                   reported, cleaned>>

\* Lines 192-210: a marker per row at row['lat'], row['lon'].
Step4Map ==
    /\ pc = "step4"
    /\ IF "df_clean" \notin keys \/ df_clean.rows = <<>>
       THEN /\ pc' = "step5"
            /\ UNCHANGED <<raised, raised_at>>
       ELSE IF ~({"lat", "lon"} \subseteq Range(df_clean.cols))
       THEN Raise("KeyError", 203)
       ELSE IF \E i \in DOMAIN df_clean.rows :
                  \/ df_clean.rows[i]["lat"].t = "nan"
                  \/ df_clean.rows[i]["lon"].t = "nan"
       THEN Raise("ValueError", 202)
       ELSE /\ pc' = "step5"
            /\ UNCHANGED <<raised, raised_at>>
    /\ UNCHANGED <<keys, df, df_clean, button, called, outcome, fetched,
                   reported, cleaned, aggregated, selected_metric, deptos_avg>>

\* Lines 213-228: the cleaned table is written to the download; the run ends.
Step5Export ==
    /\ pc = "step5"
    /\ pc' = "idle"
    /\ UNCHANGED <<keys, df, df_clean, button, called, outcome, fetched,
                   reported, raised, raised_at, cleaned, aggregated,
                   selected_metric, deptos_avg>>

Next ==
    \/ ClickLoad
    \/ Rerun
    \/ Step1Load
    \/ Step2Clean
    \/ Step3Visualize
    \/ Step4Map
    \/ Step5Export

Spec == Init /\ [][Next]_vars

-----------------------------------------------------------------------------
(* Properties.                                                              *)

\* The run pressed the button and the fetch gave an empty table.
EmptyFetchRun == button /\ called /\ IsEmpty(fetched)

\* The run pressed the button and the API answered with the empty array.
EmptyArrayRun == button /\ called /\ outcome = "ok" /\ fetched = EmptyTable

\* The run is at or past the visualization.
AtVisualization == pc \in {"step3", "step4", "step5"}

C2_NoMissingAfterClean ==
    "df_clean" \in keys =>
        \A i \in DOMAIN df_clean.rows : ~HasMissing(df_clean.rows[i])

\* C3: cleaning the cleaned table again gives the cleaned table.
C3_CleanIdempotent ==
    cleaned => (~YearRaises(df_clean) /\ CleanTable(df_clean) = df_clean)

\* C4: when the raw table has the field 'a_o', every row of the cleaned
\* table holds a point in time in the column 'Año', not a number.
C4_YearColumnIsDate ==
    (cleaned /\ "a_o" \in Range(df.cols)) =>
        /\ "Año" \in Range(df_clean.cols)
        /\ \A i \in DOMAIN df_clean.rows : df_clean.rows[i]["Año"].t = "date"

\* C5: a value of 'a_o' that is no four-digit year does not make the
\* cleaning raise: the run gets past line 124 and the table is cleaned.
C5_MalformedYearDoesNotRaise ==
    ("df" \in keys /\ YearRaises(df) /\ pc \notin {"step1", "step2"}) =>
        (raised_at # 124 /\ cleaned)

\* C6: in the cleaned table every value of a column other than
\* 'departamento' and 'municipio' is a number or missing, never a string.
C6_NonCategoricalNumericOrMissing ==
    "df_clean" \in keys =>
        \A i \in DOMAIN df_clean.rows :
            \A c \in Range(df_clean.cols) \ Categorical :
                df_clean.rows[i][c].t \in {"num", "nan"}

\* A cleaned table is stored in which "bad" was coerced to a missing value
\* and a numeric string to a number.
C6_Witness ==
    /\ cleaned
    /\ "tasa" \in Range(df_clean.cols)
    /\ \E i, j \in DOMAIN df_clean.rows :
          /\ df_clean.rows[i]["tasa"].t = "nan"
          /\ df_clean.rows[j]["tasa"].t = "num"

\* The departments of the cleaned table.
CleanDepts == {df_clean.rows[i]["departamento"] : i \in DOMAIN df_clean.rows}

\* The rows of a department whose value of the selected metric is not missing.
ValuedRows(key) ==
    {i \in DOMAIN df_clean.rows :
        /\ df_clean.rows[i]["departamento"] = key
        /\ df_clean.rows[i][selected_metric].t = "num"}

\* The sum of the selected metric over a set of rows.
RECURSIVE SumMetric(_)
SumMetric(I) ==
    IF I = {} THEN 0
    ELSE LET i == CHOOSE x \in I : TRUE
         IN  df_clean.rows[i][selected_metric].v + SumMetric(I \ {i})

\* C7: the aggregate has at most 10 entries, one per distinct department,
\* each the arithmetic mean of the metric over the department's values that
\* are not missing (no mean when it has none), ordered by mean, not
\* increasing, the entries without a mean last; it has fewer than 10 entries
\* exactly when there are fewer than 10 distinct departments, and then one
\* per department.
C7_TopTenByMean ==
    aggregated =>
        /\ Len(deptos_avg) <= TopN
        /\ \A i \in DOMAIN deptos_avg :
              /\ deptos_avg[i].key \in CleanDepts
              /\ deptos_avg[i].cnt = Cardinality(ValuedRows(deptos_avg[i].key))
              /\ deptos_avg[i].sum = SumMetric(ValuedRows(deptos_avg[i].key))
        /\ \A i, j \in DOMAIN deptos_avg :
              i < j =>
                /\ deptos_avg[i].key # deptos_avg[j].key
                /\ \/ deptos_avg[j].cnt = 0
                   \/ /\ deptos_avg[i].cnt > 0
                      /\ deptos_avg[i].sum * deptos_avg[j].cnt
                            >= deptos_avg[j].sum * deptos_avg[i].cnt
        /\ (Len(deptos_avg) < TopN) <=> (Cardinality(CleanDepts) < TopN)
        /\ (Len(deptos_avg) < TopN) => (Len(deptos_avg) = Cardinality(CleanDepts))

\* More than 10 departments were aggregated: 10 entries are kept, the first
\* with a greater mean than the last.
C7_Witness ==
    /\ aggregated
    /\ Cardinality(CleanDepts) > TopN
    /\ Len(deptos_avg) = TopN
    /\ deptos_avg[TopN].cnt > 0
    /\ MeanGT(deptos_avg[1], deptos_avg[TopN])

\* C8 as claimed: when the API answers with the empty array, the loader
\* returns a table without rows, and the cleaning and the aggregation of
\* the run each produce a table without rows, nothing raising.
C8_EmptyArrayGivesEmptyDownstream ==
    EmptyArrayRun =>
        /\ Len(fetched.rows) = 0
        /\ raised = "none"
        /\ AtVisualization => (cleaned /\ Len(df_clean.rows) = 0)
        /\ pc \in {"step4", "step5"} => (aggregated /\ Len(deptos_avg) = 0)

\* C8 as amended: when the API answers with the empty array, the loader
\* returns the table without rows and columns, reports no error and raises
\* nothing; the table is not stored, and the cleaning and the aggregation
\* never run on it: they are skipped when the session holds no raw table,
\* and run on the raw table it already holds otherwise.
C8_EmptyArrayIsNotProcessed ==
    EmptyArrayRun =>
        /\ fetched = EmptyTable
        /\ reported = "none"
        /\ raised_at # 104
        /\ "df" \notin keys =>
              (~cleaned /\ ~aggregated /\ raised = "none" /\ "df_clean" \notin keys)
        /\ "df" \in keys => ~IsEmpty(df)
        /\ cleaned => ("df" \in keys /\ df_clean = CleanTable(df))

\* After the empty array the run cleaned and aggregated the table stored
\* before, and the aggregate has entries.
C8_Witness ==
    /\ EmptyArrayRun
    /\ cleaned
    /\ aggregated
    /\ Len(df_clean.rows) > 0
    /\ Len(deptos_avg) > 0

\* C9: a run whose fetch gives an empty table leaves the session state as it
\* was, and goes on to clean and visualize the raw table stored before; the
\* stored raw table is replaced only by a fetched table with at least one
\* row (the cleaning step of that run then adds the derived year to it).
C9_EmptyFetchKeepsSession ==
    /\ [][EmptyFetchRun' =>
            (keys' = keys /\ df' = df /\ df_clean' = df_clean)]_vars
    /\ [][df' # df =>
            \/ /\ pc = "step1"
               /\ Len(fetched'.rows) >= 1
               /\ df' = fetched'
            \/ /\ pc = "step2"
               /\ button
               /\ ~IsEmpty(fetched)
               /\ df' = DeriveYear(df)]_vars
    /\ [](EmptyFetchRun /\ "df" \in keys /\ AtVisualization =>
            (cleaned /\ df_clean = CleanTable(df)))

\* A run whose fetch failed has cleaned and aggregated the table stored by
\* an earlier run.
C9_Witness ==
    /\ EmptyFetchRun
    /\ outcome \in FetchFailures
    /\ "df" \in keys
    /\ cleaned
    /\ aggregated
    /\ pc = "step4"

\* C10: when a run is at the visualization, the map or the export, the
\* session holds a cleaned table only if it holds a raw table, and the
\* cleaned table is the result of cleaning the raw table it holds.
C10_CleanMatchesRaw ==
    (AtVisualization /\ "df_clean" \in keys) =>
        /\ "df" \in keys
        /\ ~YearRaises(df)
        /\ df_clean = CleanTable(df)

\* The session holds a cleaned table of an earlier raw table beside a raw
\* table that replaced it, the run having ended at line 124.
C10_Witness ==
    /\ pc = "idle"
    /\ raised_at = 124
    /\ "df" \in keys
    /\ "df_clean" \in keys
    /\ Len(df_clean.rows) > 0

=============================================================================
